---- MODULE Spec2Model ----
(***************************************************************************)
(* Budget scaling engine of finley-cfo-agent: RevenueTracker               *)
(* (services/revenue-tracker.ts) and BudgetUpdater (budget-updater).       *)
(*                                                                         *)
(* Numbers.  JavaScript numbers are IEEE-754 doubles.  Revenues are whole  *)
(* currency units (integers); a scale factor is kept in thousandths        *)
(* (1000 = 1.0x, 10000 = 10.0x), which is exact for revenue / 1000.  The   *)
(* one place where the double rounding error is observable, Math.round of  *)
(* base * scaleFactor when the exact product is k + 0.5, is computed from  *)
(* the rounding error of the division (RoundTimes).  NaN is a sentinel     *)
(* and every comparison with it is false, as in IEEE-754.                  *)
(***************************************************************************)
EXTENDS Integers, Sequences, FiniteSets, TLC

VARIABLES
    today,            \* the calendar day new Date() yields (day number)
    lastUpdateDate,   \* BudgetUpdater.lastUpdateDate; NoDate is null
    pc,               \* per invocation: position in updateBudgets
    snapshot,         \* per invocation: settled fetchRevenueData promise
    report,           \* per invocation: settled generateRevenueReport promise
    ret,              \* per invocation: value updateBudgets resolved with
    fetchKind,        \* history: how the invocation's HTTP request ended
    path,             \* history: which return statement the invocation took
    appliedToday,     \* history: number of apply paths taken on `today`
    lowAppliedToday,  \* history: those of them with a scale factor <= 1.1
    monthlyRevenue,   \* calculator run: the argument
    scaleOut,         \* calculator run: calculateScaleFactor's result
    limitsOut,        \* calculator run: calculateBudgetLimits' result
    recsOut,          \* calculator run: the recommendations selected
    calcPc            \* calculator run: position

updaterVars == <<today, lastUpdateDate, pc, snapshot, report, ret,
                 fetchKind, path, appliedToday, lowAppliedToday>>
calcVars == <<monthlyRevenue, scaleOut, limitsOut, recsOut, calcPc>>
vars == <<today, lastUpdateDate, pc, snapshot, report, ret, fetchKind, path,
          appliedToday, lowAppliedToday, monthlyRevenue, scaleOut, limitsOut, recsOut, calcPc>>

----------------------------------------------------------------------------
(* Bounds of the model *)

MaxDay == 3
NumCallers == 2
MaxRevenue == 15000
RevenueBelow == 200
OneTimeSample == 250
MaxApplied == 2
ProbeStep == 500
NeighbourSpan == 10

Callers == 1..NumCallers
Days == 1..MaxDay
NoDate == 0

----------------------------------------------------------------------------
(* Numbers *)

NaN == -1000000000
Milli == 1000
MantissaBits == 52

IsNaN(x) == x = NaN
Lt(a, b) == ~IsNaN(a) /\ ~IsNaN(b) /\ a < b
Gt(a, b) == ~IsNaN(a) /\ ~IsNaN(b) /\ a > b
Le(a, b) == ~IsNaN(a) /\ ~IsNaN(b) /\ a <= b
Ge(a, b) == ~IsNaN(a) /\ ~IsNaN(b) /\ a >= b

RECURSIVE Pow2(_)
Pow2(k) == IF k = 0 THEN 1 ELSE 2 * Pow2(k - 1)

RECURSIVE Pow2Mod(_, _)
Pow2Mod(k, m) == IF k = 0 THEN 1 % m ELSE (2 * Pow2Mod(k - 1, m)) % m

\* floor(log2(n / d)) for n >= d > 0
RECURSIVE Log2Floor(_, _)
Log2Floor(n, d) == IF n < 2 * d THEN 0 ELSE 1 + Log2Floor(n, 2 * d)

\* x / y as a scale in thousandths (exact for y = 1000 and integer x)
Divide(x, y) == IF IsNaN(x) THEN NaN ELSE (x * Milli) \div y

\* Signed rounding error of the double nearest sf/1000, in thousandths of
\* one unit in the last place of that double.
DivisionError(sf) ==
    LET e == Log2Floor(sf, Milli)
        rem == (sf * Pow2Mod(MantissaBits - e, Milli)) % Milli
    IN  IF 2 * rem <= Milli THEN 0 - rem ELSE Milli - rem

\* The double product base * (sf/1000), whose exact value is k + 0.5,
\* lies strictly below k + 0.5.
ProductBelowHalf(base, sf) ==
    LET e == Log2Floor(sf, Milli)
        eH == Log2Floor(base * sf, Milli)
        d == DivisionError(sf)
    IN  d < 0 /\ base * (0 - d) * Pow2(e + 1) > Milli * Pow2(eH)

\* Math.round(base * scaleFactor): floor(x + 0.5) of the double product
RoundTimes(base, sf) ==
    IF IsNaN(sf) THEN NaN
    ELSE LET exact == base * sf
         IN  IF exact % Milli # Milli \div 2
             THEN (exact + Milli \div 2) \div Milli
             ELSE IF ProductBelowHalf(base, sf)
                  THEN exact \div Milli
                  ELSE exact \div Milli + 1

\* Math.ceil(x / 1000) * 1000
CeilToThousand(x) ==
    IF IsNaN(x) THEN NaN ELSE (0 - ((0 - x) \div 1000)) * 1000

----------------------------------------------------------------------------
(* RevenueTracker: constants and pure functions *)

baseRevenue == 1000
maxScaleFactor == 10
minScaleFactor == 1

baseBudgets ==
    [ceo |-> [maxSpending |-> 300],
     cfo |-> [maxCostOptimization |-> 150, maxBudgetAllocation |-> 300],
     cto |-> [maxInfrastructureCost |-> 150]]

\* calculateScaleFactor with the factor rounded to a whole multiple
calculateScaleFactor_rounded(revenue) ==
    LET scaleFactor == Divide(revenue, baseRevenue)
        whole == IF IsNaN(scaleFactor) THEN NaN
                 ELSE ((scaleFactor + Milli \div 2) \div Milli) * Milli
    IN  IF Gt(whole, maxScaleFactor * Milli) THEN maxScaleFactor * Milli
        ELSE IF Lt(whole, minScaleFactor * Milli)
             THEN minScaleFactor * Milli
             ELSE whole

calculateScaleFactor(revenue) ==
    LET scaleFactor == Divide(revenue, baseRevenue)
    IN  IF Gt(scaleFactor, maxScaleFactor * Milli) THEN maxScaleFactor * Milli
        ELSE IF Lt(scaleFactor, minScaleFactor * Milli)
             THEN minScaleFactor * Milli
             ELSE scaleFactor

\* calculateBudgetLimits on the unclamped factor
calculateBudgetLimits_unclamped(revenue) ==
    LET scaleFactor == Divide(revenue, baseRevenue)
    IN  [ceo |-> [maxSpending |->
                    RoundTimes(baseBudgets.ceo.maxSpending, scaleFactor)],
         cfo |-> [maxCostOptimization |->
                    RoundTimes(baseBudgets.cfo.maxCostOptimization, scaleFactor),
                  maxBudgetAllocation |->
                    RoundTimes(baseBudgets.cfo.maxBudgetAllocation, scaleFactor)],
         cto |-> [maxInfrastructureCost |->
                    RoundTimes(baseBudgets.cto.maxInfrastructureCost, scaleFactor)]]

\* calculateBudgetLimits that falls back to the base budgets above the cap
calculateBudgetLimits_capToBase(revenue) ==
    LET raw == Divide(revenue, baseRevenue)
        scaleFactor == IF Gt(raw, maxScaleFactor * Milli)
                       THEN minScaleFactor * Milli
                       ELSE calculateScaleFactor(revenue)
    IN  [ceo |-> [maxSpending |->
                    RoundTimes(baseBudgets.ceo.maxSpending, scaleFactor)],
         cfo |-> [maxCostOptimization |->
                    RoundTimes(baseBudgets.cfo.maxCostOptimization, scaleFactor),
                  maxBudgetAllocation |->
                    RoundTimes(baseBudgets.cfo.maxBudgetAllocation, scaleFactor)],
         cto |-> [maxInfrastructureCost |->
                    RoundTimes(baseBudgets.cto.maxInfrastructureCost, scaleFactor)]]

calculateBudgetLimits(revenue) ==
    LET scaleFactor == calculateScaleFactor(revenue)
    IN  [ceo |-> [maxSpending |->
                    RoundTimes(baseBudgets.ceo.maxSpending, scaleFactor)],
         cfo |-> [maxCostOptimization |->
                    RoundTimes(baseBudgets.cfo.maxCostOptimization, scaleFactor),
                  maxBudgetAllocation |->
                    RoundTimes(baseBudgets.cfo.maxBudgetAllocation, scaleFactor)],
         cto |-> [maxInfrastructureCost |->
                    RoundTimes(baseBudgets.cto.maxInfrastructureCost, scaleFactor)]]

----------------------------------------------------------------------------
(* JSON values of the analytics payload, with JavaScript's coercions *)

Num(n) == [t |-> "number", v |-> n]
Missing == [t |-> "undefined", v |-> 0]
\* a non-numeric string such as "n/a"
Text == [t |-> "string", v |-> 0]
\* an object whose toLocaleString member is not callable
Obj == [t |-> "object", v |-> 0]

\* ToNumber, as applied by /, < and Math.ceil
ToNumber(j) == IF j.t = "number" THEN j.v ELSE NaN

\* x || 0
OrZero(j) == IF j.t = "undefined" \/ (j.t = "number" /\ j.v = 0) THEN Num(0) ELSE j

\* a + b: numeric sum, or string concatenation when an operand is not a number
Plus(a, b) == IF a.t = "number" /\ b.t = "number" THEN Num(a.v + b.v) ELSE Text

\* value.toLocaleString() returns (true) or throws a TypeError (false)
HasToLocaleString(j) == j.t # "object"

----------------------------------------------------------------------------
(* Promises: pending, fulfilled with a value, or rejected with an error *)

NoError == "undefined"

ZeroSnapshot ==
    [totalMRR |-> Num(0),
     revenueByProduct |-> [dealio |-> Num(0), quotely |-> Num(0),
                           shopflow |-> Num(0), shoplink |-> Num(0)],
     oneTimeRevenue |-> Num(0),
     totalRevenue |-> Num(0)]

NoLimits ==
    [ceo |-> [maxSpending |-> NaN],
     cfo |-> [maxCostOptimization |-> NaN, maxBudgetAllocation |-> NaN],
     cto |-> [maxInfrastructureCost |-> NaN]]

\* recommendations: the band selected, the number of messages pushed and
\* the milestone cited by the progress message
NoRecommendations == [band |-> "none", messages |-> 0, nextMilestone |-> NaN]

NoReport ==
    [revenue |-> ZeroSnapshot, scaleFactor |-> NaN, budgets |-> NoLimits,
     recommendations |-> NoRecommendations]

NoResult ==
    [success |-> FALSE, budgets |-> NoLimits, scaleFactor |-> NaN,
     revenue |-> Num(0), error |-> NoError]

Fulfilled(v) == [state |-> "fulfilled", error |-> NoError, value |-> v]
Rejected(msg, v) == [state |-> "rejected", error |-> msg, value |-> v]
PendingSnapshot == [state |-> "pending", error |-> NoError, value |-> ZeroSnapshot]
PendingReport == [state |-> "pending", error |-> NoError, value |-> NoReport]

----------------------------------------------------------------------------
(* Responses of GET <url>/api/analytics *)

MrrValues == {0 - 500, 1100, 1101, 15000}
MrrPayloads == {Num(n) : n \in MrrValues} \cup {Text, Obj}

Financial(m, o) ==
    [mrr |-> m, dealioMRR |-> m, quotelyMRR |-> Missing,
     shopflowMRR |-> Missing, shoplinkMRR |-> Missing, oneTimeRevenue |-> o]

FailureKinds == {"status", "transport", "timeout"}

\* "ok": status 200 with a JSON object; "empty": status 200 with a null body;
\* "status": another status; "transport": axios rejects; "timeout": no
\* answer within 10 s
\* An "ok" body carries mrr and oneTimeRevenue, or has no financial object
\* (analytics.financial || {}), which leaves every field absent.
Responses ==
    {[kind |-> "ok", financial |-> Financial(m, Num(OneTimeSample))] :
        m \in MrrPayloads}
    \cup {[kind |-> "ok", financial |-> Financial(Missing, Missing)]}
    \cup {[kind |-> k, financial |-> Financial(Missing, Missing)] :
            k \in FailureKinds \cup {"empty"}}

\* The snapshot built from the payload's financial object
SnapshotOf(financial) ==
    LET totalMRR == OrZero(financial.mrr)
        oneTimeRevenue == OrZero(financial.oneTimeRevenue)
    IN  [totalMRR |-> totalMRR,
         revenueByProduct |->
           [dealio |-> OrZero(financial.dealioMRR),
            quotely |-> OrZero(financial.quotelyMRR),
            shopflow |-> OrZero(financial.shopflowMRR),
            shoplink |-> OrZero(financial.shoplinkMRR)],
         oneTimeRevenue |-> oneTimeRevenue,
         totalRevenue |-> Plus(totalMRR, oneTimeRevenue)]

\* fetchRevenueData whose catch block rethrows
fetchRevenueData_rethrow(resp) ==
    IF resp.kind # "ok"
    THEN Rejected("Failed to fetch analytics", ZeroSnapshot)
    ELSE Fulfilled(SnapshotOf(resp.financial))

\* A response other than a 200 with a body throws inside the try block
\* (lines 99 and 103, or axios itself) and the catch block returns zeros.
fetchRevenueData(resp) ==
    IF resp.kind # "ok"
    THEN Fulfilled(ZeroSnapshot)
    ELSE Fulfilled(SnapshotOf(resp.financial))

\* Recommendations with a strict comparison against the cap
Recommendations_strictCap(mrr, scaleFactor) ==
    IF Lt(mrr, baseRevenue)
    THEN [band |-> "conservative", messages |-> 2, nextMilestone |-> NaN]
    ELSE IF Gt(scaleFactor, maxScaleFactor * Milli)
         THEN [band |-> "cap", messages |-> 2, nextMilestone |-> NaN]
         ELSE [band |-> "progress", messages |-> 1,
               nextMilestone |-> CeilToThousand(mrr)]

\* The if / else if / else that fills the recommendations array
Recommendations(mrr, scaleFactor) ==
    IF Lt(mrr, baseRevenue)
    THEN [band |-> "conservative", messages |-> 2, nextMilestone |-> NaN]
    ELSE IF Ge(scaleFactor, maxScaleFactor * Milli)
         THEN [band |-> "cap", messages |-> 2, nextMilestone |-> NaN]
         ELSE [band |-> "progress", messages |-> 1,
               nextMilestone |-> CeilToThousand(mrr)]

generateRevenueReport(fetched) ==
    IF fetched.state = "rejected"
    THEN Rejected(fetched.error, NoReport)
    ELSE LET revenue == fetched.value
             mrr == ToNumber(revenue.totalMRR)
             scaleFactor == calculateScaleFactor(mrr)
             budgets == calculateBudgetLimits(mrr)
             recommendations == Recommendations(mrr, scaleFactor)
         IN  Fulfilled([revenue |-> revenue, scaleFactor |-> scaleFactor,
                        budgets |-> budgets,
                        recommendations |-> recommendations])

----------------------------------------------------------------------------
(* BudgetUpdater *)

\* 1.1, in thousandths
sameDayThreshold == 1100

defaultBudgets ==
    [ceo |-> [maxSpending |-> 300],
     cfo |-> [maxCostOptimization |-> 150, maxBudgetAllocation |-> 300],
     cto |-> [maxInfrastructureCost |-> 150]]

FailureResult(msg) ==
    [success |-> FALSE, budgets |-> defaultBudgets, scaleFactor |-> 1 * Milli,
     revenue |-> Num(0), error |-> msg]

\* AlreadyCurrent with a strict comparison
AlreadyCurrent_strict(last, now, scaleFactor) ==
    last = now /\ Lt(scaleFactor, sameDayThreshold)

\* AlreadyCurrent that looks at the date only
AlreadyCurrent_dateOnly(last, now, scaleFactor) ==
    last = now

\* The test "already updated today": this.lastUpdateDate === today &&
\* scaleFactor <= 1.1
AlreadyCurrent(last, now, scaleFactor) ==
    last = now /\ Le(scaleFactor, sameDayThreshold)

\* updateBudgets that assigns lastUpdateDate before it logs the update
updateBudgets_writeFirst(rep, last, now) ==
    IF rep.state = "rejected"
    THEN [result |-> FailureResult(rep.error), lastUpdateDate |-> last,
          path |-> "catch"]
    ELSE LET budgets == rep.value.budgets
             scaleFactor == rep.value.scaleFactor
             revenue == rep.value.revenue.totalMRR
             result == [success |-> TRUE, budgets |-> budgets,
                        scaleFactor |-> scaleFactor, revenue |-> revenue,
                        error |-> NoError]
         IN  IF AlreadyCurrent(last, now, scaleFactor)
             THEN [result |-> result, lastUpdateDate |-> last,
                   path |-> "current"]
             ELSE IF ~HasToLocaleString(revenue)
                  THEN [result |->
                          FailureResult("revenue.toLocaleString is not a function"),
                        lastUpdateDate |-> now, path |-> "catch"]
                  ELSE [result |-> result, lastUpdateDate |-> now,
                        path |-> "apply"]

\* updateBudgets that suspends on the apply path (awaiting the remote
\* update) before it assigns lastUpdateDate: the step ends without the write
updateBudgets_deferredWrite(rep, last, now) ==
    IF rep.state = "rejected"
    THEN [result |-> FailureResult(rep.error), lastUpdateDate |-> last,
          path |-> "catch"]
    ELSE LET budgets == rep.value.budgets
             scaleFactor == rep.value.scaleFactor
             revenue == rep.value.revenue.totalMRR
             result == [success |-> TRUE, budgets |-> budgets,
                        scaleFactor |-> scaleFactor, revenue |-> revenue,
                        error |-> NoError]
         IN  IF AlreadyCurrent(last, now, scaleFactor)
             THEN [result |-> result, lastUpdateDate |-> last,
                   path |-> "current"]
             ELSE IF ~HasToLocaleString(revenue)
                  THEN [result |->
                          FailureResult("revenue.toLocaleString is not a function"),
                        lastUpdateDate |-> last, path |-> "catch"]
                  ELSE [result |-> result, lastUpdateDate |-> last,
                        path |-> "apply"]

\* The part of updateBudgets after the awaited report: the value it resolves
\* with, the new lastUpdateDate and the return statement taken.
updateBudgets(rep, last, now) ==
    IF rep.state = "rejected"
    THEN [result |-> FailureResult(rep.error), lastUpdateDate |-> last,
          path |-> "catch"]
    ELSE LET budgets == rep.value.budgets
             scaleFactor == rep.value.scaleFactor
             revenue == rep.value.revenue.totalMRR
             result == [success |-> TRUE, budgets |-> budgets,
                        scaleFactor |-> scaleFactor, revenue |-> revenue,
                        error |-> NoError]
         IN  IF AlreadyCurrent(last, now, scaleFactor)
             THEN [result |-> result, lastUpdateDate |-> last,
                   path |-> "current"]
             ELSE IF ~HasToLocaleString(revenue)
                  THEN [result |->
                          FailureResult("revenue.toLocaleString is not a function"),
                        lastUpdateDate |-> last, path |-> "catch"]
                  ELSE [result |-> result, lastUpdateDate |-> now,
                        path |-> "apply"]

----------------------------------------------------------------------------
(* The updater: invocations of runDailyUpdate / updateBudgets on one instance *)

Init ==
    /\ today = 1
    /\ lastUpdateDate = NoDate
    /\ pc = [i \in Callers |-> "idle"]
    /\ snapshot = [i \in Callers |-> PendingSnapshot]
    /\ report = [i \in Callers |-> PendingReport]
    /\ ret = [i \in Callers |-> NoResult]
    /\ fetchKind = [i \in Callers |-> "none"]
    /\ path = [i \in Callers |-> "none"]
    /\ appliedToday = 0
    /\ lowAppliedToday = 0
    /\ monthlyRevenue = 0
    /\ scaleOut = NaN
    /\ limitsOut = NoLimits
    /\ recsOut = NoRecommendations
    /\ calcPc = "off"

\* runDailyUpdate calls updateBudgets, which calls generateRevenueReport,
\* which calls fetchRevenueData, which issues the request and suspends.
Call(i) ==
    /\ pc[i] = "idle"
    /\ pc' = [pc EXCEPT ![i] = "fetching"]
    /\ UNCHANGED <<today, lastUpdateDate, snapshot, report, ret, fetchKind,
                   path, appliedToday, lowAppliedToday>>
    /\ UNCHANGED calcVars

\* The request ends and fetchRevenueData settles.
FetchSettles(i) ==
    /\ pc[i] = "fetching"
    /\ \E resp \in Responses :
         /\ snapshot' = [snapshot EXCEPT ![i] = fetchRevenueData(resp)]
         /\ fetchKind' = [fetchKind EXCEPT ![i] = resp.kind]
    /\ pc' = [pc EXCEPT ![i] = "fetched"]
    /\ UNCHANGED <<today, lastUpdateDate, report, ret, path, appliedToday,
                   lowAppliedToday>>
    /\ UNCHANGED calcVars

\* generateRevenueReport resumes with the snapshot and settles.
ReportSettles(i) ==
    /\ pc[i] = "fetched"
    /\ report' = [report EXCEPT ![i] = generateRevenueReport(snapshot[i])]
    /\ pc' = [pc EXCEPT ![i] = "reported"]
    /\ UNCHANGED <<today, lastUpdateDate, snapshot, ret, fetchKind, path,
                   appliedToday, lowAppliedToday>>
    /\ UNCHANGED calcVars

\* updateBudgets resumes with the report and runs to its return.
Reconcile(i) ==
    /\ pc[i] = "reported"
    /\ LET out == updateBudgets(report[i], lastUpdateDate, today)
       IN  /\ ret' = [ret EXCEPT ![i] = out.result]
           /\ lastUpdateDate' = out.lastUpdateDate
           /\ path' = [path EXCEPT ![i] = out.path]
           /\ appliedToday' =
                IF out.path = "apply"
                THEN (IF appliedToday < MaxApplied THEN appliedToday + 1
                      ELSE MaxApplied)
                ELSE appliedToday
           /\ lowAppliedToday' =
                IF out.path = "apply"
                   /\ Le(report[i].value.scaleFactor, sameDayThreshold)
                THEN (IF lowAppliedToday < MaxApplied THEN lowAppliedToday + 1
                      ELSE MaxApplied)
                ELSE lowAppliedToday
    /\ pc' = [pc EXCEPT ![i] = "done"]
    /\ UNCHANGED <<today, snapshot, report, fetchKind>>
    /\ UNCHANGED calcVars

\* runDailyUpdate resumes with the result, logs it and returns.
runDailyUpdate(i) ==
    /\ pc[i] = "done"
    /\ pc' = [pc EXCEPT ![i] = "idle"]
    /\ snapshot' = [snapshot EXCEPT ![i] = PendingSnapshot]
    /\ report' = [report EXCEPT ![i] = PendingReport]
    /\ ret' = [ret EXCEPT ![i] = NoResult]
    /\ fetchKind' = [fetchKind EXCEPT ![i] = "none"]
    /\ path' = [path EXCEPT ![i] = "none"]
    /\ UNCHANGED <<today, lastUpdateDate, appliedToday, lowAppliedToday>>
    /\ UNCHANGED calcVars

\* The calendar day changes.
Midnight ==
    /\ today < MaxDay
    /\ today' = today + 1
    /\ appliedToday' = 0
    /\ lowAppliedToday' = 0
    /\ UNCHANGED <<lastUpdateDate, pc, snapshot, report, ret, fetchKind, path>>
    /\ UNCHANGED calcVars

Next ==
    \/ \E i \in Callers : Call(i)
    \/ \E i \in Callers : FetchSettles(i)
    \/ \E i \in Callers : ReportSettles(i)
    \/ \E i \in Callers : Reconcile(i)
    \/ \E i \in Callers : runDailyUpdate(i)
    \/ Midnight

Spec == Init /\ [][Next]_vars

----------------------------------------------------------------------------
(* The calculator: calculateScaleFactor, calculateBudgetLimits and the     *)
(* selection of recommendations applied to one monthly revenue, in the     *)
(* order generateRevenueReport applies them.                               *)

CalcRevenues == (0 - RevenueBelow)..MaxRevenue

CalcInit ==
    /\ monthlyRevenue \in CalcRevenues
    /\ scaleOut = NaN
    /\ limitsOut = NoLimits
    /\ recsOut = NoRecommendations
    /\ calcPc = "input"
    /\ today = 1
    /\ lastUpdateDate = NoDate
    /\ pc = [i \in Callers |-> "idle"]
    /\ snapshot = [i \in Callers |-> PendingSnapshot]
    /\ report = [i \in Callers |-> PendingReport]
    /\ ret = [i \in Callers |-> NoResult]
    /\ fetchKind = [i \in Callers |-> "none"]
    /\ path = [i \in Callers |-> "none"]
    /\ appliedToday = 0
    /\ lowAppliedToday = 0

CalcScale ==
    /\ calcPc = "input"
    /\ scaleOut' = calculateScaleFactor(monthlyRevenue)
    /\ calcPc' = "scaled"
    /\ UNCHANGED <<monthlyRevenue, limitsOut, recsOut>>
    /\ UNCHANGED updaterVars

CalcLimits ==
    /\ calcPc = "scaled"
    /\ limitsOut' = calculateBudgetLimits(monthlyRevenue)
    /\ calcPc' = "limited"
    /\ UNCHANGED <<monthlyRevenue, scaleOut, recsOut>>
    /\ UNCHANGED updaterVars

CalcRecommend ==
    /\ calcPc = "limited"
    /\ recsOut' = Recommendations(monthlyRevenue, scaleOut)
    /\ calcPc' = "recommended"
    /\ UNCHANGED <<monthlyRevenue, scaleOut, limitsOut>>
    /\ UNCHANGED updaterVars

CalcNext == CalcScale \/ CalcLimits \/ CalcRecommend

SpecCalc == CalcInit /\ [][CalcNext]_vars

----------------------------------------------------------------------------
(* Properties of the updater (specification Spec) *)

\* invocation i takes the step from the settled report to its return
Reconciles(i) == pc[i] = "reported" /\ pc'[i] = "done"

\* C1: on one BudgetUpdater instance at most one updateBudgets invocation
\* per calendar day takes the apply path, whatever the scale factor is.
C1_AtMostOneApplyPerDay == appliedToday <= 1

\* C2: an invocation that finds lastUpdateDate equal to today and a scale
\* factor <= 1.1 returns the computed limits, does not take the apply path
\* and leaves lastUpdateDate unchanged.
C2_SameDayNoAction ==
    [][\A i \in Callers :
         (/\ Reconciles(i)
          /\ report[i].state = "fulfilled"
          /\ lastUpdateDate = today
          /\ Le(report[i].value.scaleFactor, 1100))
         => (/\ path'[i] = "current"
             /\ lastUpdateDate' = lastUpdateDate
             /\ appliedToday' = appliedToday
             /\ ret'[i].success
             /\ ret'[i].budgets = report[i].value.budgets
             /\ ret'[i].scaleFactor = report[i].value.scaleFactor
             /\ ret'[i].revenue = report[i].value.revenue.totalMRR)]_vars

\* an invocation has returned on the no-action path on the day of the last
\* applied update, with the scale factor exactly at 1.1
C2_Witness ==
    \E i \in Callers :
        /\ pc[i] = "done" /\ path[i] = "current"
        /\ lastUpdateDate = today
        /\ ret[i].scaleFactor = 1100

C4_InvalidValueFails ==
    \A i \in Callers :
        (pc[i] = "done"
         /\ (report[i].state = "rejected" \/ IsNaN(report[i].value.scaleFactor)))
        => (/\ path[i] # "apply"
            /\ ret[i].success = FALSE
            /\ ret[i].budgets.ceo.maxSpending = 300
            /\ ret[i].budgets.cfo.maxCostOptimization = 150
            /\ ret[i].budgets.cfo.maxBudgetAllocation = 300
            /\ ret[i].budgets.cto.maxInfrastructureCost = 150
            /\ ret[i].scaleFactor = 1000
            /\ ret[i].revenue = Num(0)
            /\ ret[i].error # NoError)

\* C5: a fetch that ends with a non-200 status, a transport error or a
\* timeout yields the all-zero snapshot without a rejection, then scale
\* factor 1 and the base budgets, and updateBudgets reports success.
C5_FetchFailureIsSoft ==
    \A i \in Callers :
        fetchKind[i] \in {"status", "transport", "timeout"}
        => (/\ snapshot[i].state = "fulfilled"
            /\ snapshot[i].value.totalMRR = Num(0)
            /\ snapshot[i].value.oneTimeRevenue = Num(0)
            /\ snapshot[i].value.totalRevenue = Num(0)
            /\ \A prod \in {"dealio", "quotely", "shopflow", "shoplink"} :
                 snapshot[i].value.revenueByProduct[prod] = Num(0)
            /\ pc[i] \in {"reported", "done"}
               => (/\ report[i].state = "fulfilled"
                   /\ report[i].value.scaleFactor = 1000
                   /\ report[i].value.budgets.ceo.maxSpending = 300
                   /\ report[i].value.budgets.cfo.maxCostOptimization = 150
                   /\ report[i].value.budgets.cfo.maxBudgetAllocation = 300
                   /\ report[i].value.budgets.cto.maxInfrastructureCost = 150)
            /\ pc[i] = "done"
               => (/\ ret[i].success
                   /\ ret[i].error = NoError
                   /\ ret[i].scaleFactor = 1000
                   /\ ret[i].budgets = report[i].value.budgets
                   /\ path[i] \in {"apply", "current"}))

\* an invocation whose request timed out has returned
C5_Witness ==
    \E i \in Callers :
        pc[i] = "done" /\ fetchKind[i] = "timeout" /\ ret[i].success

\* C10: the value returned on the apply path differs from the value
\* returned on the same-day no-action path for the same revenue.
C10_ApplyIsSignalled ==
    \A i, j \in Callers :
        (/\ pc[i] = "done" /\ pc[j] = "done"
         /\ path[i] = "apply" /\ path[j] = "current"
         /\ ret[i].revenue = ret[j].revenue)
        => ret[i] # ret[j]

----------------------------------------------------------------------------
(* Properties of the calculator (specification SpecCalc) *)

\* C6: for revenue >= 0 the scale factor is clamp(revenue / 1000, 1, 10),
\* not rounded inside the band; it always lies in [1, 10]; a negative
\* revenue yields 1.  (Thousandths: revenue / 1000 is the revenue itself.)
C6_ScaleIsClamp ==
    calcPc \in {"scaled", "limited"}
    => (/\ monthlyRevenue >= 0
           => scaleOut = (IF monthlyRevenue < 1000 THEN 1000
                          ELSE IF monthlyRevenue > 10000 THEN 10000
                          ELSE monthlyRevenue)
        /\ scaleOut >= 1000 /\ scaleOut <= 10000
        /\ monthlyRevenue < 0 => scaleOut = 1000)

\* the fractional factor 2.37 was returned for revenue 2370
C6_Witness ==
    calcPc = "scaled" /\ monthlyRevenue = 2370 /\ scaleOut = 2370

\* C7: each of the four limits is >= its base limit (300, 150, 300, 150)
\* and <= 10 times its base limit.
C7_LimitsWithinBand ==
    calcPc = "limited"
    => (/\ limitsOut.ceo.maxSpending >= 300
        /\ limitsOut.ceo.maxSpending <= 3000
        /\ limitsOut.cfo.maxCostOptimization >= 150
        /\ limitsOut.cfo.maxCostOptimization <= 1500
        /\ limitsOut.cfo.maxBudgetAllocation >= 300
        /\ limitsOut.cfo.maxBudgetAllocation <= 3000
        /\ limitsOut.cto.maxInfrastructureCost >= 150
        /\ limitsOut.cto.maxInfrastructureCost <= 1500)

\* limits were computed for a revenue below the base and for one above the cap
C7_Witness ==
    /\ calcPc = "limited"
    /\ \/ monthlyRevenue < 0 /\ limitsOut.cto.maxInfrastructureCost = 150
       \/ monthlyRevenue > 10000 /\ limitsOut.ceo.maxSpending = 3000

LimitsLeq(a, b) ==
    /\ a.ceo.maxSpending <= b.ceo.maxSpending
    /\ a.cfo.maxCostOptimization <= b.cfo.maxCostOptimization
    /\ a.cfo.maxBudgetAllocation <= b.cfo.maxBudgetAllocation
    /\ a.cto.maxInfrastructureCost <= b.cto.maxInfrastructureCost

\* The revenues a computed result is compared with: its neighbours on either side
\* (so every adjacent pair of the range is compared) and a grid over the range.
Probes(r) ==
    {k * ProbeStep :
        k \in (0 - (RevenueBelow \div ProbeStep))..(MaxRevenue \div ProbeStep)}
    \cup ((r - NeighbourSpan)..(r + NeighbourSpan) \cap CalcRevenues)

\* C8: for revenues r1 <= r2 every limit computed for r1 is <= the same
\* limit computed for r2.
C8_LimitsMonotone ==
    calcPc = "limited"
    => \A q \in Probes(monthlyRevenue) :
          /\ q <= monthlyRevenue
             => LimitsLeq(calculateBudgetLimits(q), limitsOut)
          /\ monthlyRevenue <= q
             => LimitsLeq(limitsOut, calculateBudgetLimits(q))

\* limits were computed for a revenue inside the band, where a larger
\* revenue has a strictly larger limit
C8_Witness ==
    /\ calcPc = "limited"
    /\ monthlyRevenue = 2000
    /\ limitsOut.ceo.maxSpending = 600
    /\ calculateBudgetLimits(2001).cfo.maxCostOptimization >= 300
    /\ calculateBudgetLimits(2010).ceo.maxSpending > 600

RoundHalfUp(base, scale) == (base * scale + 500) \div 1000

DocumentedPoint(r, exec, costOpt, alloc, infra) ==
    monthlyRevenue = r
    => (/\ limitsOut.ceo.maxSpending = exec
        /\ limitsOut.cfo.maxCostOptimization = costOpt
        /\ limitsOut.cfo.maxBudgetAllocation = alloc
        /\ limitsOut.cto.maxInfrastructureCost = infra)

\* C9: each limit equals round-half-up(base x scale(revenue)); revenue 500
\* gives 300/150/300/150, 2000 gives 600/300/600/300, 5000 gives
\* 1500/750/1500/750, 10000 and 15000 give 3000/1500/3000/1500.
C9_LimitsRoundHalfUp ==
    calcPc = "limited"
    => (/\ limitsOut.ceo.maxSpending = RoundHalfUp(300, scaleOut)
        /\ limitsOut.cfo.maxCostOptimization = RoundHalfUp(150, scaleOut)
        /\ limitsOut.cfo.maxBudgetAllocation = RoundHalfUp(300, scaleOut)
        /\ limitsOut.cto.maxInfrastructureCost = RoundHalfUp(150, scaleOut)
        /\ DocumentedPoint(500, 300, 150, 300, 150)
        /\ DocumentedPoint(2000, 600, 300, 600, 300)
        /\ DocumentedPoint(5000, 1500, 750, 1500, 750)
        /\ DocumentedPoint(10000, 3000, 1500, 3000, 1500)
        /\ DocumentedPoint(15000, 3000, 1500, 3000, 1500))

----------------------------------------------------------------------------
(* Further properties of the updater (specification Spec) *)

\* C11: lastUpdateDate changes only in the step of an updateBudgets
\* invocation that takes the apply path, and only to that invocation's
\* today; fetch, report, a failed pass, a no-action pass, the return and
\* the change of day leave it alone; once set it is never absent again.
C11_OnlyApplyWrites ==
    [][/\ lastUpdateDate' # lastUpdateDate
          => \E i \in Callers :
                /\ Reconciles(i)
                /\ path'[i] = "apply"
                /\ lastUpdateDate' = today
                /\ today' = today
       /\ (\E i \in Callers : Reconciles(i) /\ path'[i] \in {"catch", "current"})
          => lastUpdateDate' = lastUpdateDate
       /\ lastUpdateDate # NoDate => lastUpdateDate' # NoDate]_vars

\* a failed pass and a no-action pass have both returned on a later day
\* than the first update, the date being the one an apply path wrote
C11_Witness ==
    \E i, j \in Callers :
        /\ pc[i] = "done" /\ path[i] = "catch"
        /\ pc[j] = "done" /\ path[j] = "current"
        /\ today > 1
        /\ lastUpdateDate = today
        /\ appliedToday >= 1

\* C13: with several invocations in flight at once, interleaved at their
\* awaits, the same-day test and the write of lastUpdateDate are one step,
\* so on one day at most one invocation whose scale factor is <= 1.1 takes
\* the apply path.
C13_OneLowApplyPerDay == lowAppliedToday <= 1

\* one invocation has applied with a scale factor <= 1.1 while another,
\* whose report (scale factor <= 1.1) had settled, is still to resume
C13_Witness ==
    \E i, j \in Callers :
        /\ i # j
        /\ pc[i] = "done" /\ path[i] = "apply"
        /\ Le(ret[i].scaleFactor, 1100)
        /\ pc[j] = "reported"
        /\ Le(report[j].value.scaleFactor, 1100)
        /\ lastUpdateDate = today
        /\ lowAppliedToday = 1

\* C14: a pass whose fetch soft-failed is reconciled like a pass that
\* observed zero revenue: when lastUpdateDate is not today it takes the
\* apply path and sets lastUpdateDate to today; a later pass of that day
\* whose fetch succeeded is suppressed when its scale factor is <= 1.1 and
\* is applied only when its scale factor exceeds 1.1.
C14_SoftFailureThenSameDay ==
    [][/\ \A i \in Callers :
            (/\ Reconciles(i)
             /\ fetchKind[i] \in {"status", "transport", "timeout"}
             /\ lastUpdateDate # today)
            => (/\ path'[i] = "apply"
                /\ lastUpdateDate' = today
                /\ ret'[i].success
                /\ ret'[i].revenue = Num(0)
                /\ ret'[i].scaleFactor = 1000)
       /\ \A i, j \in Callers :
            (/\ pc[i] = "done" /\ path[i] = "apply"
             /\ fetchKind[i] \in {"status", "transport", "timeout"}
             /\ lastUpdateDate = today
             /\ Reconciles(j)
             /\ fetchKind[j] = "ok")
            => (/\ Le(report[j].value.scaleFactor, 1100)
                   => (path'[j] = "current" /\ lastUpdateDate' = lastUpdateDate)
                /\ path'[j] = "apply"
                   => Gt(report[j].value.scaleFactor, 1100))]_vars

----------------------------------------------------------------------------
(* Further properties of the calculator (specification SpecCalc) *)

\* C12: the recommendations come from exactly one of three bands:
\* totalMRR < 1000 gives the conservative guidance; otherwise a scale
\* factor >= 10 gives the beyond-cap guidance; otherwise one progress
\* message whose milestone is ceil(totalMRR / 1000) x 1000, the least
\* multiple of 1000 that is >= totalMRR.
C12_ThreeBands ==
    calcPc = "recommended"
    => (/\ recsOut.band \in {"conservative", "cap", "progress"}
        /\ recsOut.band = "conservative" <=> monthlyRevenue < 1000
        /\ recsOut.band = "cap"
           <=> (monthlyRevenue >= 1000 /\ scaleOut >= 10000)
        /\ recsOut.band = "progress"
           <=> (monthlyRevenue >= 1000 /\ scaleOut < 10000)
        /\ recsOut.band \in {"conservative", "cap"} => recsOut.messages = 2
        /\ recsOut.band = "progress"
           => (/\ recsOut.messages = 1
               /\ recsOut.nextMilestone % 1000 = 0
               /\ recsOut.nextMilestone >= monthlyRevenue
               /\ recsOut.nextMilestone - 1000 < monthlyRevenue))

\* the progress message was selected for revenue 2370, citing 3000
C12_Witness ==
    /\ calcPc = "recommended"
    /\ monthlyRevenue = 2370
    /\ recsOut.band = "progress"
    /\ recsOut.nextMilestone = 3000

====
